---- MODULE Spec2Model ----
(***************************************************************************)
(* A model of the teaching examples of cpp_sandbox.                        *)
(*                                                                         *)
(*   SpecDA   DynamicArray<T> of iterators.cc: the owning container, its   *)
(*            special member functions and operator[], over a heap whose   *)
(*            buffers are allocation identities.                           *)
(*   SpecIt   DynamicArray<T>::iterator of iterators.cc.                   *)
(*   SpecMap  Map<K,V,N>::at and main of constexpr_map.cc.                 *)
(*                                                                         *)
(* Pointers are allocation identities: nullptr, or the number of the       *)
(* new-expression that produced the buffer.  A buffer keeps its identity   *)
(* after it is released, so a dangling pointer stays distinguishable.      *)
(***************************************************************************)
EXTENDS Integers, Sequences, FiniteSets, TLC

\* ------------------------------------------------------------------------
\* Bounds of the model
\* ------------------------------------------------------------------------
MaxObjs == 2        \* DynamicArray objects whose lifetime is followed
MaxBufs == 4        \* new-expressions evaluated in one run
MaxSize == 2        \* largest size passed to a constructor
MaxVal == 1         \* element values are 0..MaxVal
SizeTBits == 16     \* width of std::size_t, scaled down from 64 to keep 2^SizeTBits a small integer

Objs == 1..MaxObjs
Bufs == 1..MaxBufs
Vals == 0..MaxVal
Sizes == 0..MaxSize
Idxs == (0 - 1)..MaxSize

\* arrays of exactly n elements
Arr(n) == [1..n -> Vals]

\* ------------------------------------------------------------------------
\* State
\* ------------------------------------------------------------------------
VARIABLES
    objs,       \* DynamicArray objects: lifetime, size_, values_
    heap,       \* buffers created by new T[n]
    nbuf,       \* number of new-expressions evaluated so far
    crashed,    \* the allocator detected an invalid delete and aborted
    origin,     \* origin[c] = o when c was copy-constructed from o, else 0
    last,       \* the last operation, with the state it started from
    its,        \* two DynamicArray<T>::iterator objects: ptr_
    pos,        \* the element position each cursor was moved to (0 = begin())
    itres,      \* result of the last cursor expression
    walk,       \* per cursor: where it was set and the unit steps taken since
    data_,      \* Map::data_
    mapres,     \* result of the last Map::at call
    mainPc,     \* constexpr_map.cc main: position
    mainMap,    \* constexpr_map.cc main: map.data_
    mainOut,    \* constexpr_map.cc main: lines written to std::cout
    mainErr,    \* constexpr_map.cc main: lines written to std::cerr
    mainExc,    \* constexpr_map.cc main: the exception in flight, if any
    mainRet,    \* constexpr_map.cc main: return value, once returned
    numSeq,     \* numeric.cc: the input vector v1
    numKind,    \* numeric.cc: "iota" when v1 was filled by std::iota, else "any"
    numRes,     \* numeric.cc: results of the last group of statements
    algPc,      \* algorithm.cc: position in remove_erase() or unique()
    algOrig,    \* algorithm.cc: v1 as first built
    algPred,    \* algorithm.cc: the predicate handed to remove_if and erase_if
    algV1,      \* algorithm.cc: v1
    algV2,      \* algorithm.cc: v2
    vecs,       \* inheritance.cc: the objects made by new, by order of creation
    vecOut,     \* inheritance.cc: the lines written to std::cout
    vecDtors,   \* inheritance.cc: the destructor bodies entered, in order
    mvPc,       \* temporary_objects.cc main: position
    mvScope,    \* temporary_objects.cc main: number of the current block
    mvRun,      \* temporary_objects.cc main: what the current block declared
    mvLive,     \* temporary_objects.cc main: Moveable objects alive
    mvCalls,    \* temporary_objects.cc: Moveable::n_calls_map
    mvOut       \* temporary_objects.cc: what print_n_calls wrote, per call

daVars == <<objs, heap, nbuf, crashed, origin, last>>
itVars == <<its, pos, itres, walk>>
mapVars == <<data_, mapres, mainPc, mainMap, mainOut, mainErr, mainExc, mainRet>>

numVars == <<numSeq, numKind, numRes>>
algVars == <<algPc, algOrig, algPred, algV1, algV2>>
vecVars == <<vecs, vecOut, vecDtors>>
mvVars == <<mvPc, mvScope, mvRun, mvLive, mvCalls, mvOut>>
restVars == <<numVars, algVars, vecVars, mvVars>>

vars == <<daVars, itVars, mapVars, restVars>>

\* T *values_{nullptr}
nullptr == 0

\* std::size_t size_{0}; T *values_{nullptr};  (before the lifetime starts)
NoObj == [life |-> "none", size_ |-> 0, values_ |-> nullptr]

\* storage no new-expression has produced yet
NoBuf == [st |-> "unalloc", data |-> <<>>, releases |-> 0, scalar |-> FALSE]

\* conversion of an int to std::size_t (usual arithmetic conversions)
ToSizeT(i) == i % (2 ^ SizeTBits)

\* ------------------------------------------------------------------------
\* The heap
\* ------------------------------------------------------------------------

\* new T[n]: the next allocation identity, holding `data`
NewArr(h, p, data) ==
    [h EXCEPT ![p] = [st |-> "live", data |-> data, releases |-> 0, scalar |-> FALSE]]

\* delete / delete[] of a pointer that is neither null nor a live buffer
BadDelete(h, p) == p # nullptr /\ h[p].st # "live"

\* delete[] p (scalar = FALSE) and delete p (scalar = TRUE); a null p is a no-op.
\* delete p on storage of new T[n] releases the storage for a trivially
\* destructible T; the mismatch is recorded in the buffer.
Release(h, p, scalar) ==
    IF p = nullptr THEN h
    ELSE [h EXCEPT ![p] = [st |-> "released", data |-> <<>>,
                           releases |-> @.releases + 1,
                           scalar |-> @.scalar \/ scalar]]

\* the elements std::copy(src, src + cnt, ...) reads; reading storage that is
\* not live yields indeterminate values (junk)
ReadN(h, src, cnt, junk) ==
    IF cnt = 0 THEN <<>>
    ELSE IF src # nullptr /\ h[src].st = "live" /\ Len(h[src].data) >= cnt
         THEN [i \in 1..cnt |-> h[src].data[i]]
         ELSE junk

\* std::copy(src, src + cnt, dst): the first cnt elements of dst are overwritten
CopyN(h, src, cnt, dst, junk) ==
    IF cnt = 0 THEN h
    ELSE LET rd == ReadN(h, src, cnt, junk)
         IN [h EXCEPT ![dst].data =
                [i \in 1..Len(@) |-> IF i <= cnt THEN rd[i] ELSE @[i]]]

\* std::fill(values_, values_ + size_, value)
FillN(h, dst, cnt, value) ==
    [h EXCEPT ![dst].data = [i \in 1..Len(@) |-> IF i <= cnt THEN value ELSE @[i]]]

\* p points at storage that can be read
Readable(h, p) == p # nullptr /\ h[p].st = "live"

\* the indeterminate contents of n elements: any values where they can be
\* observed, and one representative where every element is overwritten or
\* none is read
Indeterminate(n, observed) == IF observed THEN Arr(n) ELSE {[i \in 1..n |-> 0]}

\* object o is the next one to be constructed: objects are numbered in the
\* order their lifetimes start
Fresh(o) == objs[o].life = "none" /\ \A q \in Objs : q < o => objs[q].life # "none"

\* a point of the execution of a member function
Stage(o, h, n, c) == [objs |-> o, heap |-> h, nbuf |-> n, crashed |-> c]

\* the state before an operation, as kept in `last`
Pre == [objs |-> objs, heap |-> heap]

Op(name, a, b) == [op |-> name, a |-> a, b |-> b, idx |-> 0, val |-> 0,
                   threw |-> FALSE, what |-> <<>>, ref |-> [buf |-> nullptr, off |-> 0],
                   pre |-> Pre]

Commit(s) ==
    /\ objs' = s.objs
    /\ heap' = s.heap
    /\ nbuf' = s.nbuf
    /\ crashed' = s.crashed

\* ------------------------------------------------------------------------
\* DynamicArray: constructors and destructor
\* ------------------------------------------------------------------------

\* DynamicArray(std::size_t size) : size_(size), values_(new T[size]{})
CtorSize(os, h, n, o, size) ==
    Stage([os EXCEPT ![o] = [life |-> "live", size_ |-> size, values_ |-> n + 1]],
          NewArr(h, n + 1, [i \in 1..size |-> 0]),
          n + 1, FALSE)

ConstructSize(o, size) ==
    /\ ~crashed /\ Fresh(o) /\ nbuf < MaxBufs
    /\ Commit(CtorSize(objs, heap, nbuf, o, size))
    /\ origin' = origin
    /\ UNCHANGED <<itVars, mapVars, restVars>>
    /\ last' = Op("ctor_size", o, 0)

\* DynamicArray(std::size_t size, const T &value)
ConstructFill(o, size, value) ==
    /\ ~crashed /\ Fresh(o) /\ nbuf < MaxBufs
    /\ LET s == CtorSize(objs, heap, nbuf, o, size)
       IN Commit([s EXCEPT !.heap = FillN(s.heap, s.objs[o].values_, s.objs[o].size_, value)])
    /\ origin' = origin
    /\ UNCHANGED <<itVars, mapVars, restVars>>
    /\ last' = Op("ctor_fill", o, 0)

\* DynamicArray(std::initializer_list<T> l)
\*   : DynamicArray(l.size()) { std::copy(l.begin(), l.end(), values_); }
CtorList(os, h, n, o, l) ==
    LET s == CtorSize(os, h, n, o, Len(l))
    IN [s EXCEPT !.heap = [s.heap EXCEPT ![s.objs[o].values_].data = l]]

ConstructList(o, l) ==
    /\ ~crashed /\ Fresh(o) /\ nbuf < MaxBufs
    /\ Commit(CtorList(objs, heap, nbuf, o, l))
    /\ origin' = origin
    /\ UNCHANGED <<itVars, mapVars, restVars>>
    /\ last' = Op("ctor_list", o, 0)

\* ~DynamicArray(): if (values_ != nullptr) delete[] values_;
\* An invalid delete either is detected by the allocator, which aborts, or
\* goes through as a second release of the buffer.
Destroy(o) ==
    /\ ~crashed /\ objs[o].life = "live"
    /\ \E detect \in BOOLEAN :
          LET p   == objs[o].values_
              bad == BadDelete(heap, p)
              h1  == IF p # nullptr THEN Release(heap, p, FALSE) ELSE heap
          IN /\ (detect => bad)
             /\ Commit(Stage([objs EXCEPT ![o].life = "dead"], h1, nbuf, detect))
    /\ origin' = origin
    /\ UNCHANGED <<itVars, mapVars, restVars>>
    /\ last' = Op("dtor", o, 0)

\* ------------------------------------------------------------------------
\* DynamicArray: copy and move
\* ------------------------------------------------------------------------

\* a copy constructor that shares the buffer of `other` instead of allocating
CopyCtor_Shallow(os, h, n, o, other, junk) ==
    Stage([os EXCEPT ![o] = [life |-> "live", size_ |-> os[other].size_,
                             values_ |-> os[other].values_]],
          h, n, FALSE)

\* DynamicArray(const DynamicArray &other) : DynamicArray(other.size_)
\* std::copy(other.values_, other.values_ + other.size_, values_);
CopyCtor(os, h, n, o, other, junk) ==
    LET s == CtorSize(os, h, n, o, os[other].size_)
    IN [s EXCEPT !.heap = CopyN(s.heap, s.objs[other].values_, s.objs[other].size_,
                                s.objs[o].values_, junk)]

CopyConstruct(o, other) ==
    /\ ~crashed /\ Fresh(o) /\ objs[other].life = "live" /\ nbuf < MaxBufs
    /\ \E junk \in Indeterminate(objs[other].size_, ~Readable(heap, objs[other].values_)) :
          Commit(CopyCtor(objs, heap, nbuf, o, other, junk))
    /\ origin' = [origin EXCEPT ![o] = other]
    /\ UNCHANGED <<itVars, mapVars, restVars>>
    /\ last' = Op("copy_ctor", o, other)

\* a move constructor that releases the source's buffer but keeps its pointer
MoveCtor_KeepsPointer(os, h, n, o, other, junk, detect) ==
    LET s1  == CopyCtor(os, h, n, o, other, junk)
        os2 == [s1.objs EXCEPT ![other].size_ = 0]
    IN Stage(os2, Release(s1.heap, os2[other].values_, FALSE), s1.nbuf, FALSE)

\* DynamicArray(DynamicArray &&other) : DynamicArray(other.size_)
\* copies the elements, then other.size_ = 0; delete[] other.values_;
\* other.values_ = nullptr;
MoveCtor(os, h, n, o, other, junk, detect) ==
    LET s1  == CopyCtor(os, h, n, o, other, junk)
        os2 == [s1.objs EXCEPT ![other].size_ = 0]
        p   == os2[other].values_
        bad == BadDelete(s1.heap, p)
        h3  == Release(s1.heap, p, FALSE)
    IN IF bad /\ detect
       THEN Stage(os2, h3, s1.nbuf, TRUE)
       ELSE Stage([os2 EXCEPT ![other].values_ = nullptr], h3, s1.nbuf, FALSE)

MoveConstruct(o, other) ==
    /\ ~crashed /\ Fresh(o) /\ objs[other].life = "live" /\ nbuf < MaxBufs
    /\ \E junk \in Indeterminate(objs[other].size_, ~Readable(heap, objs[other].values_)),
          detect \in BOOLEAN :
          /\ (detect => BadDelete(heap, objs[other].values_))
          /\ Commit(MoveCtor(objs, heap, nbuf, o, other, junk, detect))
    /\ origin' = origin
    /\ UNCHANGED <<itVars, mapVars, restVars>>
    /\ last' = Op("move_ctor", o, other)

\* DynamicArray &operator=(const DynamicArray &other)
\*   size_ = other.size_; delete[] values_; values_ = new T[size_];
\*   std::copy(other.values_, other.values_ + other.size_, values_);
\* new T[size_] leaves the elements indeterminate (junk).
CopyAssignOp(os, h, n, a, other, junk, detect) ==
    LET os1 == [os EXCEPT ![a].size_ = os[other].size_]
        p   == os1[a].values_
        bad == BadDelete(h, p)
        h1  == Release(h, p, FALSE)
        h2  == NewArr(h1, n + 1, junk)
        os2 == [os1 EXCEPT ![a].values_ = n + 1]
        h3  == CopyN(h2, os2[other].values_, os2[other].size_, os2[a].values_, junk)
    IN IF bad /\ detect
       THEN Stage(os1, h1, n, TRUE)
       ELSE Stage(os2, h3, n + 1, FALSE)

CopyAssign(a, other) ==
    /\ ~crashed /\ objs[a].life = "live" /\ objs[other].life = "live" /\ nbuf < MaxBufs
    /\ \E junk \in Indeterminate(objs[other].size_,
                                   a = other \/ ~Readable(heap, objs[other].values_)),
          detect \in BOOLEAN :
          /\ (detect => BadDelete(heap, objs[a].values_))
          /\ Commit(CopyAssignOp(objs, heap, nbuf, a, other, junk, detect))
    /\ origin' = [origin EXCEPT ![a] = 0]
    /\ UNCHANGED <<itVars, mapVars, restVars>>
    /\ last' = Op("copy_assign", a, other)

\* DynamicArray &operator=(DynamicArray &&other)
\*   size_ = other.size_; delete values_; values_ = new T[size_];
\*   std::copy(other.values_, other.values_ + other.size_, values_);
\*   other.size_ = 0; delete other.values_;
MoveAssignOp(os, h, n, a, other, junk, detect) ==
    LET os1  == [os EXCEPT ![a].size_ = os[other].size_]
        p    == os1[a].values_
        bad1 == BadDelete(h, p)
        h1   == Release(h, p, TRUE)
        h2   == NewArr(h1, n + 1, junk)
        os2  == [os1 EXCEPT ![a].values_ = n + 1]
        h3   == CopyN(h2, os2[other].values_, os2[other].size_, os2[a].values_, junk)
        os3  == [os2 EXCEPT ![other].size_ = 0]
        q    == os3[other].values_
        bad2 == BadDelete(h3, q)
        h4   == Release(h3, q, TRUE)
    IN IF bad1 /\ detect
       THEN Stage(os1, h1, n, TRUE)
       ELSE Stage(os3, h4, n + 1, bad2 /\ detect)

MoveAssign(a, other) ==
    /\ ~crashed /\ objs[a].life = "live" /\ objs[other].life = "live" /\ nbuf < MaxBufs
    /\ \E junk \in Indeterminate(objs[other].size_,
                                   a = other \/ ~Readable(heap, objs[other].values_)),
          detect \in BOOLEAN :
          /\ (detect => (BadDelete(heap, objs[a].values_)
                           \/ (a # other /\ BadDelete(heap, objs[other].values_))))
          /\ Commit(MoveAssignOp(objs, heap, nbuf, a, other, junk, detect))
    /\ origin' = [origin EXCEPT ![a] = 0]
    /\ UNCHANGED <<itVars, mapVars, restVars>>
    /\ last' = Op("move_assign", a, other)

\* ------------------------------------------------------------------------
\* DynamicArray: element access
\* ------------------------------------------------------------------------

\* std::format("Invalid index {} for DynamicArray of size {}\n", idx, size_)
RangeErrorText(idx, size) == <<"Invalid index", idx, "for DynamicArray of size", size>>

\* an operator[] that compares idx as a signed number
OpIndex_Signed(os, o, idx) ==
    IF idx >= os[o].size_
    THEN [threw |-> TRUE, what |-> RangeErrorText(idx, os[o].size_),
          ref |-> [buf |-> nullptr, off |-> 0]]
    ELSE [threw |-> FALSE, what |-> <<>>,
          ref |-> [buf |-> os[o].values_, off |-> idx]]

\* T &operator[](int idx): if (idx >= size_) throw std::range_error(...);
\* return values_[idx];   idx is converted to std::size_t for the comparison.
OpIndex(os, o, idx) ==
    IF ToSizeT(idx) >= os[o].size_
    THEN [threw |-> TRUE, what |-> RangeErrorText(idx, os[o].size_),
          ref |-> [buf |-> nullptr, off |-> 0]]
    ELSE [threw |-> FALSE, what |-> <<>>,
          ref |-> [buf |-> os[o].values_, off |-> idx]]

\* arr[idx] = v
AssignAt(o, idx, v) ==
    /\ ~crashed /\ objs[o].life = "live"
    /\ LET r == OpIndex(objs, o, idx)
       IN /\ heap' = IF r.threw THEN heap
                     ELSE [heap EXCEPT ![r.ref.buf].data[r.ref.off + 1] = v]
          /\ last' = [Op("assign_at", o, 0) EXCEPT !.idx = idx, !.val = v,
                         !.threw = r.threw, !.what = r.what, !.ref = r.ref]
    /\ UNCHANGED <<objs, nbuf, crashed, origin, itVars, mapVars, restVars>>

\* iterator() = default;  pointer ptr_{nullptr};
NullIt == [buf |-> nullptr, off |-> 0]

NoItRes == [op |-> "none", l |-> 1, r |-> 1, val |-> 0, lt |-> FALSE, gt |-> FALSE, le |-> FALSE, ge |-> FALSE,
            ret |-> NullIt, was |-> 0, ref1 |-> NullIt, ref2 |-> NullIt, elem |-> 0]

\* a cursor that was not set by begin() or end(), or was moved by an offset
NoWalk == [from |-> "none", dir |-> "none", n |-> 0]

ItIdle ==
    /\ its = [k \in 1..2 |-> NullIt]
    /\ pos = [k \in 1..2 |-> 0]
    /\ itres = NoItRes
    /\ walk = [k \in 1..2 |-> NoWalk]

NoMapRes == [op |-> "none", key |-> "", threw |-> FALSE, what |-> <<>>, value |-> <<>>,
             data |-> <<>>]

MapIdle ==
    /\ data_ = <<>>
    /\ mapres = NoMapRes
    /\ mainPc = "idle"
    /\ mainMap = <<>>
    /\ mainOut = <<>>
    /\ mainErr = <<>>
    /\ mainExc = <<>>
    /\ mainRet = 0 - 1

NoNumRes == [op |-> "none", sum1 |-> 0, sum2 |-> 0, gauss |-> 0,
             psum1 |-> <<>>, psum2 |-> <<>>, total |-> 0]

NumIdle ==
    /\ numSeq = <<>>
    /\ numKind = "any"
    /\ numRes = NoNumRes

AlgIdle ==
    /\ algPc = "start"
    /\ algOrig = <<>>
    /\ algPred = <<>>
    /\ algV1 = <<>>
    /\ algV2 = <<>>

VecIdle ==
    /\ vecs = <<>>
    /\ vecOut = <<>>
    /\ vecDtors = <<>>

NoRun == [decl |-> 0, kinds |-> <<>>]

MvIdle ==
    /\ mvPc = "open"
    /\ mvScope = 1
    /\ mvRun = NoRun
    /\ mvLive = 0
    /\ mvCalls = <<>>
    /\ mvOut = <<>>

RestIdle == NumIdle /\ AlgIdle /\ VecIdle /\ MvIdle

DAIdle ==
    /\ objs = [o \in Objs |-> NoObj]
    /\ heap = [p \in Bufs |-> NoBuf]
    /\ nbuf = 0
    /\ crashed = FALSE
    /\ origin = [o \in Objs |-> 0]
    /\ last = [op |-> "none", a |-> 0, b |-> 0, idx |-> 0, val |-> 0,
               threw |-> FALSE, what |-> <<>>, ref |-> [buf |-> nullptr, off |-> 0],
               pre |-> [objs |-> [o \in Objs |-> NoObj], heap |-> [p \in Bufs |-> NoBuf]]]

DAInit == DAIdle /\ ItIdle /\ MapIdle /\ RestIdle

DANext ==
    \/ \E o \in Objs, n \in Sizes : ConstructSize(o, n)
    \/ \E o \in Objs, n \in Sizes, v \in Vals : ConstructFill(o, n, v)
    \/ \E o \in Objs, n \in Sizes : \E l \in Arr(n) : ConstructList(o, l)
    \/ \E o \in Objs : Destroy(o)
    \/ \E o \in Objs, other \in Objs : CopyConstruct(o, other)
    \/ \E o \in Objs, other \in Objs : MoveConstruct(o, other)
    \/ \E a \in Objs, other \in Objs : CopyAssign(a, other)
    \/ \E a \in Objs, other \in Objs : MoveAssign(a, other)
    \/ \E o \in Objs, idx \in Idxs, v \in Vals : AssignAt(o, idx, v)

SpecDA == DAInit /\ [][DANext]_vars

\* ------------------------------------------------------------------------
\* Properties of DynamicArray (SpecDA)
\* ------------------------------------------------------------------------

\* the elements [values_, values_ + size_) of object o in a state (os, h);
\* none can be read once the buffer is released
Elements(os, h, o) ==
    IF os[o].values_ = nullptr \/ os[o].size_ = 0 THEN <<>>
    ELSE IF h[os[o].values_].st # "live" THEN <<>>
    ELSE [i \in 1..os[o].size_ |-> h[os[o].values_].data[i]]

AllDestroyed == \A o \in Objs : objs[o].life # "live"

\* C1: every buffer that was allocated is released exactly once: no buffer is
\* released twice, and once every container has been destroyed no buffer is
\* left unreleased.  (Stated as the claim states it; the move-assignment
\* operator breaks it.)
C1_ReleasedExactlyOnce ==
    /\ \A p \in Bufs : heap[p].releases <= 1
    /\ (AllDestroyed /\ ~crashed) => \A p \in Bufs : heap[p].st # "live"

\* C2: after move-assignment a = std::move(b) between two distinct values, b
\* has size zero and a null storage pointer, and a's prior buffer has been
\* released.  (Stated as the claim states it; operator=(DynamicArray&&) never
\* resets other.values_.)
C2_MoveAssignEmptiesSource ==
    (last.op = "move_assign" /\ last.a # last.b /\ ~crashed) =>
        /\ objs[last.b].size_ = 0
        /\ objs[last.b].values_ = nullptr
        /\ LET old == last.pre.objs[last.a].values_
           IN old # nullptr => heap[old].st = "released"

\* C3: after move-construction of d from a source s of size n, d has size n
\* and holds the elements s held before, in order, and s has size zero and a
\* null storage pointer.
C3_MoveConstruct ==
    (last.op = "move_ctor" /\ ~crashed) =>
        /\ objs[last.a].life = "live"
        /\ objs[last.a].size_ = last.pre.objs[last.b].size_
        /\ Elements(objs, heap, last.a) = Elements(last.pre.objs, last.pre.heap, last.b)
        /\ objs[last.b].size_ = 0
        /\ objs[last.b].values_ = nullptr

C3_Witness ==
    /\ last.op = "move_ctor" /\ ~crashed
    /\ last.pre.objs[last.b].size_ = MaxSize
    /\ \E i \in 1..MaxSize : Elements(objs, heap, last.a)[i] # 0

\* C4: after copy-construction of c from o, c has the size and the elements of
\* o in a buffer of its own, and o is unchanged; a later write to an element
\* of either one leaves the size and every element of the other unchanged.
C4_CopyIsDeep ==
    /\ last.op = "copy_ctor" =>
          /\ objs[last.a].size_ = objs[last.b].size_
          /\ Elements(objs, heap, last.a) = Elements(objs, heap, last.b)
          /\ objs[last.a].values_ # objs[last.b].values_
          /\ objs[last.b] = last.pre.objs[last.b]
          /\ Elements(objs, heap, last.b) = Elements(last.pre.objs, last.pre.heap, last.b)
    /\ (last.op = "assign_at" /\ ~last.threw) =>
          \A y \in Objs :
             (y # last.a /\ objs[y].life = "live"
                /\ (origin[last.a] = y \/ origin[y] = last.a)) =>
                 /\ objs[y] = last.pre.objs[y]
                 /\ Elements(objs, heap, y) = Elements(last.pre.objs, last.pre.heap, y)

C4_Witness ==
    /\ last.op = "assign_at" /\ ~last.threw
    /\ \E y \in Objs :
          /\ origin[last.a] = y
          /\ objs[y].life = "live"
          /\ objs[y].size_ = objs[last.a].size_
          /\ Elements(objs, heap, y) # Elements(objs, heap, last.a)
          /\ Elements(last.pre.objs, last.pre.heap, y)
               = Elements(last.pre.objs, last.pre.heap, last.a)

\* C5: after copy-assignment a = b, for every a and b, also when a and b are
\* the same container, a has the size and the elements b had before, b is
\* unchanged, and a's buffer is not b's buffer unless a is b.  (Stated as the
\* claim states it; self-assignment copies from the fresh buffer.)
C5_CopyAssign ==
    (last.op = "copy_assign" /\ ~crashed) =>
        /\ objs[last.a].size_ = last.pre.objs[last.b].size_
        /\ Elements(objs, heap, last.a) = Elements(last.pre.objs, last.pre.heap, last.b)
        /\ objs[last.b].size_ = last.pre.objs[last.b].size_
        /\ Elements(objs, heap, last.b) = Elements(last.pre.objs, last.pre.heap, last.b)
        /\ (last.a # last.b => objs[last.a].values_ # objs[last.b].values_)

\* C6: for an array of size n and every int i, operator[](i) returns a
\* reference to element i when 0 <= i < n and raises a range error naming i
\* and n otherwise (negative i and i = n included); the index is never
\* clamped or wrapped, and the buffer is not touched on the error path.
C6_IndexChecked ==
    last.op = "assign_at" =>
        LET n == last.pre.objs[last.a].size_
            i == last.idx
        IN IF 0 <= i /\ i < n
           THEN /\ ~last.threw
                /\ last.ref = [buf |-> objs[last.a].values_, off |-> i]
                /\ heap[last.ref.buf].st = "live"
                /\ Elements(objs, heap, last.a) =
                      [k \in 1..n |-> IF k = i + 1 THEN last.val
                                      ELSE Elements(last.pre.objs, last.pre.heap, last.a)[k]]
           ELSE /\ last.threw
                /\ last.what[2] = i /\ last.what[4] = n
                /\ last.ref.buf = nullptr
                /\ heap = last.pre.heap

C6_Witness ==
    /\ last.op = "assign_at" /\ last.threw
    /\ last.idx < 0
    /\ last.pre.objs[last.a].size_ = MaxSize

\* ------------------------------------------------------------------------
\* DynamicArray<T>::iterator (SpecIt)
\* A cursor is its ptr_: the buffer pointed into and the element offset.
\* ------------------------------------------------------------------------
Cursors == 1..2
Diffs == (0 - MaxSize)..MaxSize

\* iterator begin() { return iterator(values_); }
Begin(os, o) == [buf |-> os[o].values_, off |-> 0]

\* iterator end() { return iterator(values_ + size_); }
End(os, o) == [buf |-> os[o].values_, off |-> os[o].size_]

\* friend iterator operator+(const iterator &it, const difference_type &diff)
OpPlus(it, diff) == [buf |-> it.buf, off |-> it.off + diff]

\* an operator- that subtracts the left cursor from the right one
OpMinus_Swapped(lhs, rhs) == rhs.off - lhs.off

\* friend difference_type operator-(const iterator &lhs, const iterator &rhs)
\*   return static_cast<difference_type>(lhs.ptr_ - rhs.ptr_);
OpMinus(lhs, rhs) == lhs.off - rhs.off

\* lhs.ptr_ <=> rhs.ptr_ : std::strong_ordering less (-1), equal (0), greater (1)
PtrOrder(p, q) == IF p.off < q.off THEN 0 - 1 ELSE IF p.off = q.off THEN 0 ELSE 1

Orderings == {0 - 1, 0, 1}

\* friend bool operator<=>(const iterator &lhs, const iterator &rhs)
\*   return lhs.ptr_ <=> rhs.ptr_;
\* The declared result is bool and std::strong_ordering converts to no bool:
\* conv stands for whatever conversion a build applies to the ordering.
Spaceship(lhs, rhs, conv) == conv[PtrOrder(lhs, rhs)]

\* integral promotion of the bool returned by operator<=>
BoolToInt(b) == IF b THEN 1 ELSE 0

\* a < b, a > b, a <= b, a >= b are rewritten to (a <=> b) @ 0, the only
\* ordering operator the class declares (USE_SPACESHIP == 1)
OpLess(lhs, rhs, conv) == BoolToInt(Spaceship(lhs, rhs, conv)) < 0
OpGreater(lhs, rhs, conv) == BoolToInt(Spaceship(lhs, rhs, conv)) > 0
OpLessEq(lhs, rhs, conv) == BoolToInt(Spaceship(lhs, rhs, conv)) <= 0
OpGreaterEq(lhs, rhs, conv) == BoolToInt(Spaceship(lhs, rhs, conv)) >= 0

\* the array the cursors range over
TheArr == 1

\* it = arr.begin()
ItBegin(k) ==
    /\ its' = [its EXCEPT ![k] = Begin(objs, TheArr)]
    /\ pos' = [pos EXCEPT ![k] = 0]
    /\ walk' = [walk EXCEPT ![k] = [from |-> "begin", dir |-> "none", n |-> 0]]
    /\ itres' = NoItRes
    /\ UNCHANGED <<daVars, mapVars, restVars>>

\* it = arr.end()
ItEnd(k) ==
    /\ its' = [its EXCEPT ![k] = End(objs, TheArr)]
    /\ pos' = [pos EXCEPT ![k] = objs[TheArr].size_]
    /\ walk' = [walk EXCEPT ![k] = [from |-> "end", dir |-> "none", n |-> 0]]
    /\ itres' = NoItRes
    /\ UNCHANGED <<daVars, mapVars, restVars>>

\* it = it + diff, kept inside [begin(), end()] as pointer arithmetic requires
ItPlus(k, diff) ==
    /\ its[k].buf # nullptr
    /\ 0 <= its[k].off + diff /\ its[k].off + diff <= objs[TheArr].size_
    /\ its' = [its EXCEPT ![k] = OpPlus(its[k], diff)]
    /\ pos' = [pos EXCEPT ![k] = pos[k] + diff]
    /\ walk' = [walk EXCEPT ![k] = NoWalk]
    /\ itres' = NoItRes
    /\ UNCHANGED <<daVars, mapVars, restVars>>

\* its[l] - its[r], for two cursors over the same buffer
ItMinus(l, r) ==
    /\ its[l].buf # nullptr /\ its[l].buf = its[r].buf
    /\ itres' = [NoItRes EXCEPT !.op = "minus", !.l = l, !.r = r,
                                !.val = OpMinus(its[l], its[r])]
    /\ UNCHANGED <<its, pos, walk, daVars, mapVars, restVars>>

\* its[l] < its[r], its[l] > its[r], its[l] <= its[r], its[l] >= its[r]
ItCompare(l, r) ==
    /\ its[l].buf # nullptr /\ its[l].buf = its[r].buf
    /\ \E conv \in [Orderings -> BOOLEAN] :
          itres' = [NoItRes EXCEPT !.op = "compare", !.l = l, !.r = r,
                                   !.lt = OpLess(its[l], its[r], conv),
                                   !.gt = OpGreater(its[l], its[r], conv),
                                   !.le = OpLessEq(its[l], its[r], conv),
                                   !.ge = OpGreaterEq(its[l], its[r], conv)]
    /\ UNCHANGED <<its, pos, walk, daVars, mapVars, restVars>>

\* iterator &operator++() { ptr_++; return *this; }
\* the cursor after the call, and the cursor the call returns
OpPreInc(it) ==
    LET nx == [buf |-> it.buf, off |-> it.off + 1]
    IN [self |-> nx, ret |-> nx]

\* iterator operator++(int) { iterator tmp(*this); ++*this; return tmp; }
OpPostInc(it) == [self |-> OpPreInc(it).self, ret |-> it]

\* iterator &operator--() { ptr_--; return *this; }
OpPreDec(it) ==
    LET nx == [buf |-> it.buf, off |-> it.off - 1]
    IN [self |-> nx, ret |-> nx]

\* a post-decrement that steps with ++*this
OpPostDec_Increments(it) == [self |-> OpPreInc(it).self, ret |-> it]

\* iterator operator--(int) { iterator tmp(*this); --*this; return tmp; }
OpPostDec(it) == [self |-> OpPreDec(it).self, ret |-> it]

\* friend bool operator==(const iterator &lhs, const iterator &rhs)
OpEq(lhs, rhs) == lhs.buf = rhs.buf /\ lhs.off = rhs.off

\* friend bool operator!=(const iterator &lhs, const iterator &rhs)
OpNe(lhs, rhs) == lhs.buf # rhs.buf \/ lhs.off # rhs.off

\* reference operator*() { return *ptr_; }
OpDeref(it) == [buf |-> it.buf, off |-> it.off]

\* a subscript that ignores the offset
OpSubscript_NoOffset(it, diff) == [self |-> it, ref |-> [buf |-> it.buf, off |-> it.off]]

\* reference operator[](const difference_type &diff) const { return ptr_[diff]; }
\* the cursor after the call (it is const), and the element referred to
OpSubscript(it, diff) == [self |-> it, ref |-> [buf |-> it.buf, off |-> it.off + diff]]

\* one more unit step of cursor k in direction dir since it was set
Stepped(k, dir) ==
    IF walk[k].from # "none" /\ walk[k].dir \in {"none", dir}
    THEN [walk EXCEPT ![k].dir = dir, ![k].n = @ + 1]
    ELSE [walk EXCEPT ![k] = NoWalk]

\* ++it and it++ (post = TRUE), while it is before end()
ItInc(k, post) ==
    /\ its[k].buf # nullptr /\ its[k].off < objs[TheArr].size_
    /\ LET r == IF post THEN OpPostInc(its[k]) ELSE OpPreInc(its[k])
       IN /\ its' = [its EXCEPT ![k] = r.self]
          /\ itres' = [NoItRes EXCEPT !.op = IF post THEN "postinc" ELSE "preinc",
                                      !.l = k, !.ret = r.ret, !.was = pos[k]]
    /\ pos' = [pos EXCEPT ![k] = pos[k] + 1]
    /\ walk' = Stepped(k, "inc")
    /\ UNCHANGED <<daVars, mapVars, restVars>>

\* --it and it-- (post = TRUE), while it is after begin()
ItDec(k, post) ==
    /\ its[k].buf # nullptr /\ its[k].off > 0
    /\ LET r == IF post THEN OpPostDec(its[k]) ELSE OpPreDec(its[k])
       IN /\ its' = [its EXCEPT ![k] = r.self]
          /\ itres' = [NoItRes EXCEPT !.op = IF post THEN "postdec" ELSE "predec",
                                      !.l = k, !.ret = r.ret, !.was = pos[k]]
    /\ pos' = [pos EXCEPT ![k] = pos[k] - 1]
    /\ walk' = Stepped(k, "dec")
    /\ UNCHANGED <<daVars, mapVars, restVars>>

\* it[n] and *(it + n), for an element of the array (elem is -1 should the
\* reference fall outside the buffer)
ItSubscript(k, n) ==
    /\ its[k].buf # nullptr
    /\ 0 <= its[k].off + n /\ its[k].off + n < objs[TheArr].size_
    /\ LET r == OpSubscript(its[k], n)
       IN /\ its' = [its EXCEPT ![k] = r.self]
          /\ itres' = [NoItRes EXCEPT !.op = "subscript", !.l = k, !.val = n,
                                      !.was = pos[k],
                                      !.ref1 = r.ref,
                                      !.ref2 = OpDeref(OpPlus(its[k], n)),
                                      !.elem = IF r.ref.off + 1 \in DOMAIN heap[r.ref.buf].data
                                               THEN heap[r.ref.buf].data[r.ref.off + 1]
                                               ELSE 0 - 1]
    /\ UNCHANGED <<pos, walk, daVars, mapVars, restVars>>

\* DynamicArray<T> arr{...}; the cursors default-constructed
ItInit ==
    /\ \E n \in Sizes : \E l \in Arr(n) :
          LET s == CtorList([o \in Objs |-> NoObj], [p \in Bufs |-> NoBuf], 0, TheArr, l)
          IN /\ objs = s.objs
             /\ heap = s.heap
             /\ nbuf = s.nbuf
             /\ crashed = s.crashed
    /\ origin = [o \in Objs |-> 0]
    /\ last = [op |-> "ctor_list", a |-> TheArr, b |-> 0, idx |-> 0, val |-> 0,
               threw |-> FALSE, what |-> <<>>, ref |-> [buf |-> nullptr, off |-> 0],
               pre |-> [objs |-> [o \in Objs |-> NoObj], heap |-> [p \in Bufs |-> NoBuf]]]
    /\ ItIdle
    /\ MapIdle
    /\ RestIdle

ItNext ==
    \/ \E k \in Cursors : ItBegin(k)
    \/ \E k \in Cursors : ItEnd(k)
    \/ \E k \in Cursors, d \in Diffs : ItPlus(k, d)
    \/ \E l \in Cursors, r \in Cursors : ItMinus(l, r)
    \/ \E l \in Cursors, r \in Cursors : ItCompare(l, r)
    \/ \E k \in Cursors, post \in BOOLEAN : ItInc(k, post)
    \/ \E k \in Cursors, post \in BOOLEAN : ItDec(k, post)
    \/ \E k \in Cursors, n \in Diffs : ItSubscript(k, n)

SpecIt == ItInit /\ [][ItNext]_vars

\* C9: end() - begin() is the size N of the array, and for two cursors over
\* the same buffer at positions i and j, a - b is the signed distance i - j
\* (so (begin() + k) - begin() = k).
C9_Difference ==
    itres.op = "minus" =>
        /\ itres.val = pos[itres.l] - pos[itres.r]
        /\ (its[itres.l] = End(objs, TheArr) /\ its[itres.r] = Begin(objs, TheArr))
              => itres.val = objs[TheArr].size_

C9_Witness ==
    /\ itres.op = "minus"
    /\ objs[TheArr].size_ = MaxSize
    /\ pos[itres.l] = 1 /\ pos[itres.r] = MaxSize
    /\ itres.val < 0

\* C10: for two cursors over the same buffer at positions i and j, a < b iff
\* i < j, a > b iff i > j, a <= b iff i <= j, a >= b iff i >= j.  (Stated as
\* the claim states it; operator<=> returns bool.)
C10_OrderingAgrees ==
    itres.op = "compare" =>
        /\ itres.lt <=> (pos[itres.l] < pos[itres.r])
        /\ itres.gt <=> (pos[itres.l] > pos[itres.r])
        /\ itres.le <=> (pos[itres.l] <= pos[itres.r])
        /\ itres.ge <=> (pos[itres.l] >= pos[itres.r])

\* C11: for an array of size N, a cursor set to end() and decremented (pre or
\* post) equals begin() after exactly N decrements and not after fewer; a
\* cursor set to begin() and incremented equals end() after exactly N
\* increments; post-increment and post-decrement return the cursor as it was
\* before the step, pre-increment and pre-decrement the stepped cursor.
C11_StepsReachEnds ==
    /\ \A k \in Cursors :
          /\ (walk[k].from = "end" /\ walk[k].dir \in {"none", "dec"}) =>
                (OpEq(its[k], Begin(objs, TheArr)) <=> walk[k].n = objs[TheArr].size_)
          /\ (walk[k].from = "end" /\ walk[k].dir \in {"none", "dec"}) =>
                (OpNe(its[k], Begin(objs, TheArr)) <=> walk[k].n < objs[TheArr].size_)
          /\ (walk[k].from = "begin" /\ walk[k].dir \in {"none", "inc"}) =>
                (OpEq(its[k], End(objs, TheArr)) <=> walk[k].n = objs[TheArr].size_)
    /\ itres.op \in {"postinc", "postdec"} =>
          /\ itres.ret = [buf |-> objs[TheArr].values_, off |-> itres.was]
          /\ OpNe(itres.ret, its[itres.l])
    /\ itres.op \in {"preinc", "predec"} => OpEq(itres.ret, its[itres.l])
    /\ itres.op \in {"preinc", "postinc"} => its[itres.l].off = itres.was + 1
    /\ itres.op \in {"predec", "postdec"} => its[itres.l].off = itres.was - 1

C11_Witness ==
    /\ objs[TheArr].size_ = MaxSize
    /\ itres.op = "postdec"
    /\ walk[itres.l] = [from |-> "end", dir |-> "dec", n |-> MaxSize]
    /\ OpEq(its[itres.l], Begin(objs, TheArr))

\* C12: for a cursor c at position p and every n with 0 <= p + n < size,
\* c[n] refers to the element *(c + n) refers to, which is element p + n of
\* the array, and evaluating them leaves c at position p.
C12_SubscriptIsDerefPlus ==
    itres.op = "subscript" =>
        /\ itres.ref1 = itres.ref2
        /\ itres.ref1 = [buf |-> objs[TheArr].values_, off |-> itres.was + itres.val]
        /\ itres.elem = Elements(objs, heap, TheArr)[itres.was + itres.val + 1]
        /\ its[itres.l] = [buf |-> objs[TheArr].values_, off |-> itres.was]
        /\ pos[itres.l] = itres.was

C12_Witness ==
    /\ itres.op = "subscript"
    /\ objs[TheArr].size_ = MaxSize
    /\ itres.was = 1 /\ itres.val = 0 - 1
    /\ itres.elem # Elements(objs, heap, TheArr)[2]

\* ------------------------------------------------------------------------
\* Map<KeyType, ValueType, Size> and main of constexpr_map.cc (SpecMap)
\* ------------------------------------------------------------------------
MaxMapSize == 3     \* largest Size of a Map that is looked up
MaxMapVal == 2      \* mapped values are 1..MaxMapVal

Keys == {"red", "blue", "purple"}
MapVals == 1..MaxMapVal
Pairs == Keys \X MapVals
MapLists == UNION {[1..n -> Pairs] : n \in 0..MaxMapSize}

\* static constexpr std::array<std::pair<std::string, int>, 3> data
MainData == << <<"red", 1>>, <<"blue", 2>>, <<"green", 3>> >>

\* std::string key{"purple"};
MainKey == "purple"

RECURSIVE FindIf_Last(_, _, _)
\* a scan that keeps the last pair whose key is equal, not the first
FindIf_Last(data, key, i) ==
    IF i > Len(data) THEN Len(data) + 1
    ELSE LET rest == FindIf_Last(data, key, i + 1)
         IN IF rest <= Len(data) THEN rest
            ELSE IF data[i][1] = key THEN i ELSE rest

RECURSIVE FindIf(_, _, _)
\* std::find_if(data_.cbegin(), data_.cend(), [&key](kv) { return kv.first == key; })
\* from position i on: the first position whose key is equal, or end (Len + 1)
FindIf(data, key, i) ==
    IF i > Len(data) THEN Len(data) + 1
    ELSE IF data[i][1] = key THEN i
    ELSE FindIf(data, key, i + 1)

\* std::format("{} not found in map.\n", key)
NotFoundText(key) == <<key, "not found in map.">>

\* a lookup that answers a miss with a value-initialized ValueType
MapAt_Default(data, key) ==
    LET it == FindIf(data, key, 1)
    IN IF it = Len(data) + 1
       THEN [threw |-> FALSE, what |-> <<>>, value |-> <<0>>]
       ELSE [threw |-> FALSE, what |-> <<>>, value |-> <<data[it][2]>>]

\* constexpr ValueType at(const KeyType &key) const
\*   if (it == data_.end()) throw std::range_error(...);  return it->second;
MapAt(data, key) ==
    LET it == FindIf(data, key, 1)
    IN IF it = Len(data) + 1
       THEN [threw |-> TRUE, what |-> NotFoundText(key), value |-> <<>>]
       ELSE [threw |-> FALSE, what |-> <<>>, value |-> <<data[it][2]>>]

\* map.at(key) on the Map under lookup
MapLookup(key) ==
    /\ LET r == MapAt(data_, key)
       IN mapres' = [op |-> "at", key |-> key, threw |-> r.threw, what |-> r.what,
                     value |-> r.value, data |-> data_]
    /\ UNCHANGED <<data_, mainPc, mainMap, mainOut, mainErr, mainExc, mainRet>>
    /\ UNCHANGED <<daVars, itVars, restVars>>

\* Map<std::string, int, 3> map(data);
MainConstruct ==
    /\ mainPc = "start"
    /\ mainMap' = MainData
    /\ mainPc' = "try"
    /\ UNCHANGED <<data_, mapres, mainOut, mainErr, mainExc, mainRet>>
    /\ UNCHANGED <<daVars, itVars, restVars>>

\* try { std::string key{"purple"}; decltype(auto) value = map.at(key);
\*       std::cout << std::format("{}: {}\n", key, value); }
MainTry ==
    /\ mainPc = "try"
    /\ LET r == MapAt(mainMap, MainKey)
       IN IF r.threw
          THEN /\ mainExc' = r.what
               /\ mainOut' = mainOut
               /\ mainPc' = "catch"
          ELSE /\ mainExc' = mainExc
               /\ mainOut' = Append(mainOut, <<MainKey, r.value[1]>>)
               /\ mainPc' = "return"
    /\ UNCHANGED <<data_, mapres, mainMap, mainErr, mainRet>>
    /\ UNCHANGED <<daVars, itVars, restVars>>

\* catch (const std::range_error &e) { std::cerr << e.what(); }
MainCatch ==
    /\ mainPc = "catch"
    /\ mainErr' = Append(mainErr, mainExc)
    /\ mainExc' = <<>>
    /\ mainPc' = "return"
    /\ UNCHANGED <<data_, mapres, mainMap, mainOut, mainRet>>
    /\ UNCHANGED <<daVars, itVars, restVars>>

\* return 0;
MainReturn ==
    /\ mainPc = "return"
    /\ mainRet' = 0
    /\ mainPc' = "done"
    /\ UNCHANGED <<data_, mapres, mainMap, mainOut, mainErr, mainExc>>
    /\ UNCHANGED <<daVars, itVars, restVars>>

MapInit ==
    /\ data_ \in MapLists
    /\ mapres = NoMapRes
    /\ mainPc = "start"
    /\ mainMap = <<>>
    /\ mainOut = <<>>
    /\ mainErr = <<>>
    /\ mainExc = <<>>
    /\ mainRet = 0 - 1
    /\ DAIdle
    /\ ItIdle
    /\ RestIdle

MapNext ==
    \/ \E key \in Keys : MapLookup(key)
    \/ MainConstruct
    \/ MainTry
    \/ MainCatch
    \/ MainReturn

SpecMap == MapInit /\ [][MapNext]_vars

\* the keys stored in a table
StoredKeys(data) == {data[i][1] : i \in 1..Len(data)}

\* C7: for every Map and every key equal to at least one stored key, at(key)
\* returns the value of the first pair, in the list's order, whose key equals
\* the argument (also when the key is stored more than once), and the table
\* is left unchanged.
C7_FirstMatch ==
    (mapres.op = "at" /\ mapres.key \in StoredKeys(mapres.data)) =>
        /\ ~mapres.threw
        /\ \E i \in 1..Len(mapres.data) :
              /\ mapres.data[i][1] = mapres.key
              /\ \A j \in 1..(i - 1) : mapres.data[j][1] # mapres.key
              /\ mapres.value = <<mapres.data[i][2]>>
        /\ data_ = mapres.data

C7_Witness ==
    /\ mapres.op = "at" /\ ~mapres.threw
    /\ \E i \in 1..Len(data_), j \in 1..Len(data_) :
          /\ i < j
          /\ data_[i][1] = mapres.key /\ data_[j][1] = mapres.key
          /\ data_[i][2] # data_[j][2]
          /\ mapres.value = <<data_[i][2]>>

\* C8: for every Map and every key equal to no stored key, at(key) raises a
\* range error whose message carries the key and returns no value; in main
\* the lookup of "purple" raises it, it is caught at the call site and
\* reported, nothing is printed to std::cout, and main returns 0.
C8_MissRaises ==
    /\ (mapres.op = "at" /\ mapres.key \notin StoredKeys(mapres.data)) =>
          /\ mapres.threw
          /\ mapres.what[1] = mapres.key
          /\ mapres.value = <<>>
    /\ mainPc \in {"catch", "return", "done"} =>
          /\ mainOut = <<>>
          /\ (mainPc = "catch" => mainExc # <<>> /\ mainExc[1] = "purple")
          /\ (mainPc # "catch" => Len(mainErr) = 1 /\ mainErr[1][1] = "purple" /\ mainExc = <<>>)
    /\ mainPc = "done" <=> mainRet = 0

C8_Witness ==
    /\ mapres.op = "at" /\ mapres.threw /\ Len(mapres.data) = MaxMapSize
    /\ mainPc = "done" /\ mainRet = 0 /\ mainErr # <<>>

\* ---------------------------------------------------------------------
\* numeric.cc: sums and scans of a vector; iterators.cc main: the scan of
\* a DynamicArray<uint> of ones.
\* ---------------------------------------------------------------------

\* Width of int and of uint, scaled down.
IntBits == 6

\* Longest vector.
MaxNumLen == 5

Pow2(n) == 2 ^ n

IntMin == 0 - Pow2(IntBits - 1)

IntMax == Pow2(IntBits - 1) - 1

Representable(x) == IntMin <= x /\ x <= IntMax

\* The value an int (two's complement) or a uint holds after an operation
\* whose mathematical result is x.
Wrap(x, T) ==
    IF T = "uint" THEN x % Pow2(IntBits)
    ELSE ((x - IntMin) % Pow2(IntBits)) + IntMin

\* std::plus() on T.
Plus(a, b, T) == Wrap(a + b, T)

Abs(x) == IF x < 0 THEN 0 - x ELSE x

\* Integer division, truncating toward zero.
CDiv(a, b) ==
    IF (a < 0) = (b < 0) THEN Abs(a) \div Abs(b) ELSE 0 - (Abs(a) \div Abs(b))

RECURSIVE Iota(_, _, _)
\* std::iota over n elements, starting at value.
Iota(n, value, T) ==
    IF n = 0 THEN <<>> ELSE <<value>> \o Iota(n - 1, Plus(value, 1, T), T)

\* std::fill over n elements.
Fill(n, value) == [i \in 1..n |-> value]

RECURSIVE Accumulate(_, _, _)
\* std::accumulate: init = init + *first, first to last.
Accumulate(seq, init, T) ==
    IF seq = <<>> THEN init
    ELSE Accumulate(Tail(seq), Plus(init, Head(seq), T), T)

RECURSIVE SumRight(_, _)
\* seq[1] + (seq[2] + (... + seq[n])), for a non-empty seq.
SumRight(seq, T) ==
    IF Len(seq) = 1 THEN seq[1] ELSE Plus(Head(seq), SumRight(Tail(seq), T), T)

Reverse(seq) == [i \in 1..Len(seq) |-> seq[Len(seq) + 1 - i]]

RECURSIVE ReduceUnrolled(_, _, _)
\* std::reduce over random-access iterators as the library computes it:
\* four elements at a time, combined pairwise, then the rest one by one.
ReduceUnrolled(seq, init, T) ==
    IF Len(seq) >= 4
    THEN LET v1 == Plus(seq[1], seq[2], T)
             v2 == Plus(seq[3], seq[4], T)
             v3 == Plus(v1, v2, T)
         IN ReduceUnrolled(SubSeq(seq, 5, Len(seq)), Plus(init, v3, T), T)
    ELSE Accumulate(seq, init, T)

Reduce_SkipsFirst(seq, init, T) ==
    {ReduceUnrolled(Tail(seq), init, T)}

\* std::reduce: a generalized sum of init and the elements, whose order and
\* grouping are unspecified; the library's grouping, and the elements taken
\* in reverse and grouped from the right.
Reduce(seq, init, T) ==
    {ReduceUnrolled(seq, init, T), SumRight(Reverse(<<init>> \o seq), T)}

SumGauss_NoPlusOne(first, last_, step) ==
    CDiv(Wrap(CDiv(Wrap(last_ - first, "int"), step)
              * Wrap(last_ + first, "int"), "int"), 2)

\* The lambda sum_gauss: (last - first + 1) / step * (last + first) / 2 on int.
SumGauss(first, last_, step) ==
    CDiv(Wrap(CDiv(Wrap(Wrap(last_ - first, "int") + 1, "int"), step)
              * Wrap(last_ + first, "int"), "int"), 2)

\* std::partial_sum: each output is the previous output plus the next input.
PartialSum(seq, T) == [i \in 1..Len(seq) |-> Accumulate(SubSeq(seq, 2, i), seq[1], T)]

InclusiveScan_Exclusive(seq, T) ==
    {[i \in 1..Len(seq) |-> Accumulate(SubSeq(seq, 1, i - 1), 0, T)]}

\* std::inclusive_scan: output i is a generalized noncommutative sum of the
\* inputs up to i, whose grouping is unspecified; grouped from the left as
\* the library does, and grouped from the right.
InclusiveScan(seq, T) ==
    {[i \in 1..Len(seq) |-> Accumulate(SubSeq(seq, 2, i), seq[1], T)],
     [i \in 1..Len(seq) |-> SumRight(SubSeq(seq, 1, i), T)]}

\* Element values of the vectors that are not filled by std::iota.
NumVals == {IntMin, 0 - 1, 1, 2, IntMax}

NumSeqs == UNION {[1..n -> NumVals] : n \in 0..MaxNumLen}

\* numeric.cc 30-31: std::vector<int> v1(n); std::iota(v1.begin(), v1.end(), first).
NumIota(n, first) ==
    /\ numSeq = <<>> /\ numRes.op = "none"
    /\ Representable(first + n - 1)
    /\ numSeq' = Iota(n, first, "int")
    /\ numKind' = "iota"
    /\ numRes' = NoNumRes
    /\ UNCHANGED <<daVars, itVars, mapVars, algVars, vecVars, mvVars>>

\* A vector of any other contents.
NumAssign ==
    /\ numSeq = <<>> /\ numRes.op = "none"
    /\ \E seq \in NumSeqs : numSeq' = seq
    /\ numKind' = "any"
    /\ numRes' = NoNumRes
    /\ UNCHANGED <<daVars, itVars, mapVars, algVars, vecVars, mvVars>>

\* numeric.cc 41-44: sum1, sum2 and the closed form.
NumSum ==
    /\ numRes.op = "none"
    /\ \E r \in Reduce(numSeq, 0, "int") :
          numRes' = [NoNumRes EXCEPT
              !.op = "sum",
              !.sum1 = Accumulate(numSeq, 0, "int"),
              !.sum2 = r,
              !.gauss = IF numSeq = <<>> THEN 0
                        ELSE SumGauss(numSeq[1], numSeq[Len(numSeq)], 1)]
    /\ UNCHANGED <<numSeq, numKind, daVars, itVars, mapVars, algVars, vecVars, mvVars>>

\* numeric.cc 54-58: psum1 and psum2, with the sum of the whole vector.
NumScan ==
    /\ numRes.op = "none"
    /\ numSeq # <<>>
    /\ \E out \in InclusiveScan(numSeq, "int"), r \in Reduce(numSeq, 0, "int") :
          numRes' = [NoNumRes EXCEPT
              !.op = "scan",
              !.psum1 = PartialSum(numSeq, "int"),
              !.psum2 = out,
              !.total = r]
    /\ UNCHANGED <<numSeq, numKind, daVars, itVars, mapVars, algVars, vecVars, mvVars>>

\* iterators.cc 367-379: dyn_arr_1 filled by iota from 1, dyn_arr_2 filled
\* with ones and scanned in place.
NumOnes(N) ==
    /\ numSeq = <<>> /\ numRes.op = "none"
    /\ \E out \in InclusiveScan(Fill(N, 1), "uint") :
          numRes' = [NoNumRes EXCEPT
              !.op = "ones",
              !.psum1 = Iota(N, 1, "uint"),
              !.psum2 = out]
    /\ numSeq' = Fill(N, 1)
    /\ numKind' = "any"
    /\ UNCHANGED <<daVars, itVars, mapVars, algVars, vecVars, mvVars>>

NumInit ==
    /\ DAIdle
    /\ ItIdle
    /\ MapIdle
    /\ NumIdle
    /\ AlgIdle
    /\ VecIdle
    /\ MvIdle

NumNext ==
    \/ \E n \in 1..MaxNumLen, first \in IntMin..IntMax : NumIota(n, first)
    \/ NumAssign
    \/ NumSum
    \/ NumScan
    \/ \E N \in 1..MaxNumLen : NumOnes(N)

SpecNum == NumInit /\ [][NumNext]_vars

RECURSIVE MathSum(_)
\* The mathematical sum of a sequence of integers.
MathSum(seq) == IF seq = <<>> THEN 0 ELSE Head(seq) + MathSum(Tail(seq))

\* C13 as stated: for every vector, reduce with seed 0 equals accumulate, and
\* for a vector of consecutive integers filled by iota both equal
\* sum_gauss(first, last, 1).
C13_SumsEqualGauss ==
    numRes.op = "sum" =>
        /\ numRes.sum2 = numRes.sum1
        /\ (numKind = "iota" => numRes.gauss = numRes.sum1 /\ numRes.gauss = numRes.sum2)

\* C13, amended: for every vector, reduce with seed 0 equals accumulate; for
\* a vector of consecutive integers first..last filled by iota, both equal
\* sum_gauss(first, last, 1) provided the count last - first + 1 and the
\* product (last - first + 1) * (last + first) are representable as int.
C13_SumsEqualGaussIfProductFits ==
    numRes.op = "sum" =>
        /\ numRes.sum2 = numRes.sum1
        /\ numRes.sum1 = Wrap(MathSum(numSeq), "int")
        /\ (/\ numKind = "iota"
            /\ Representable(numSeq[Len(numSeq)] - numSeq[1] + 1)
            /\ Representable((numSeq[Len(numSeq)] - numSeq[1] + 1)
                              * (numSeq[Len(numSeq)] + numSeq[1])))
           => numRes.gauss = numRes.sum1 /\ numRes.gauss = MathSum(numSeq)

C13_Witness ==
    /\ numRes.op = "sum" /\ numKind = "iota"
    /\ numSeq = <<1, 2, 3, 4, 5>>
    /\ numRes.sum1 = 15 /\ numRes.sum2 = 15 /\ numRes.gauss = 15

C14_WitnessOnes ==
    /\ numRes.op = "ones"
    /\ Len(numSeq) = MaxNumLen
    /\ numRes.psum2 = numRes.psum1

\* ---------------------------------------------------------------------
\* algorithm.cc: remove_erase() and unique().
\* ---------------------------------------------------------------------

\* Longest vector handed to remove_if / erase_if / unique.
MaxAlgLen == 4

\* Greatest element value.
MaxAlgVal == 2

AlgVals == 0..MaxAlgVal

AlgSeqs == UNION {[1..n -> AlgVals] : n \in 0..MaxAlgLen}

\* Unary predicates, as the set of their outcomes on the element values.
AlgPreds == [AlgVals -> BOOLEAN]

\* operator% on int: the remainder of the truncating division.
CRem(a, b) == a - b * CDiv(a, b)

\* The lambda is_even: return e % 2, converted to bool by the algorithm.
IsEven == [e \in AlgVals |-> CRem(e, 2) # 0]

\* std::find_if: the first position whose element satisfies pred, else last.
FindIfPos(seq, pred) ==
    IF \E i \in 1..Len(seq) : pred[seq[i]]
    THEN CHOOSE i \in 1..Len(seq) : pred[seq[i]] /\ \A j \in 1..(i - 1) : ~pred[seq[j]]
    ELSE Len(seq) + 1

RECURSIVE RemoveLoop(_, _, _, _)
\* The loop of std::remove_if: every later element that does not satisfy
\* pred is moved to *result; the elements from result on keep what they had.
RemoveLoop(seq, pred, result, first) ==
    IF first > Len(seq) THEN [v |-> seq, it |-> result]
    ELSE IF ~pred[seq[first]]
         THEN RemoveLoop([seq EXCEPT ![result] = seq[first]], pred, result + 1, first + 1)
         ELSE RemoveLoop(seq, pred, result, first + 1)

RemoveIf_Inverted(seq, pred) ==
    LET q == [e \in DOMAIN pred |-> ~pred[e]]
        f == FindIfPos(seq, q)
    IN IF f = Len(seq) + 1 THEN [v |-> seq, it |-> f]
       ELSE RemoveLoop(seq, q, f, f + 1)

\* std::remove_if: the vector after the moves and the returned iterator.
RemoveIf(seq, pred) ==
    LET f == FindIfPos(seq, pred)
    IN IF f = Len(seq) + 1 THEN [v |-> seq, it |-> f]
       ELSE RemoveLoop(seq, pred, f, f + 1)

\* v.erase(it, v.end()).
Erase(v, it) == SubSeq(v, 1, it - 1)

\* std::erase_if(v, pred): erases every element that satisfies pred.
EraseIf(v, pred) == SelectSeq(v, LAMBDA e : ~pred[e])

\* std::adjacent_find: the first position equal to its successor, else last.
AdjacentFind(seq) ==
    IF \E i \in 1..(Len(seq) - 1) : seq[i] = seq[i + 1]
    THEN CHOOSE i \in 1..(Len(seq) - 1) :
            seq[i] = seq[i + 1] /\ \A j \in 1..(i - 1) : seq[j] # seq[j + 1]
    ELSE Len(seq) + 1

RECURSIVE UniqueLoop(_, _, _)
\* The loop of std::unique: while (++first != last), an element that differs
\* from *dest is moved to *++dest.
UniqueLoop(seq, dest, first) ==
    LET nx == first + 1
    IN IF nx > Len(seq) THEN [v |-> seq, it |-> dest + 1]
       ELSE IF seq[dest] # seq[nx]
            THEN UniqueLoop([seq EXCEPT ![dest + 1] = seq[nx]], dest + 1, nx)
            ELSE UniqueLoop(seq, dest, nx)

RECURSIVE Distinct(_, _)
Distinct(seq, seen) ==
    IF seq = <<>> THEN <<>>
    ELSE IF Head(seq) \in seen THEN Distinct(Tail(seq), seen)
         ELSE <<Head(seq)>> \o Distinct(Tail(seq), seen \cup {Head(seq)})

Unique_DropsEveryRepeat(seq) ==
    LET d == Distinct(seq, {})
    IN [v |-> d \o SubSeq(seq, Len(d) + 1, Len(seq)), it |-> Len(d) + 1]

\* std::unique: the vector after the moves and the returned iterator.
Unique(seq) ==
    LET f == AdjacentFind(seq)
    IN IF f = Len(seq) + 1 THEN [v |-> seq, it |-> f]
       ELSE UniqueLoop(seq, f, f + 1)

RECURSIVE PushPairs(_, _)
\* algorithm.cc 110-115: for i in 0..n-1, push_back(i) twice.
PushPairs(i, n) ==
    IF i >= n THEN <<>> ELSE <<i, i>> \o PushPairs(i + 1, n)

\* algorithm.cc 73-78: v1 built, v2 a copy of it; the predicate to be used.
AlgBuild ==
    /\ algPc = "start"
    /\ \E seq \in AlgSeqs, pred \in AlgPreds :
          /\ algOrig' = seq
          /\ algV1' = seq
          /\ algV2' = seq
          /\ algPred' = pred
    /\ algPc' = "built"
    /\ UNCHANGED <<daVars, itVars, mapVars, numVars, vecVars, mvVars>>

\* algorithm.cc 89: v1.erase(std::remove_if(v1.begin(), v1.end(), pred), v1.end()).
AlgRemoveErase ==
    /\ algPc = "built"
    /\ LET r == RemoveIf(algV1, algPred)
       IN algV1' = Erase(r.v, r.it)
    /\ algPc' = "removed"
    /\ UNCHANGED <<algOrig, algPred, algV2, daVars, itVars, mapVars, numVars, vecVars, mvVars>>

\* algorithm.cc 92: std::erase_if(v2, pred).
AlgEraseIf ==
    /\ algPc = "removed"
    /\ algV2' = EraseIf(algV2, algPred)
    /\ algPc' = "erased"
    /\ UNCHANGED <<algOrig, algPred, algV1, daVars, itVars, mapVars, numVars, vecVars, mvVars>>

\* algorithm.cc 109-115: v1 filled with each of 0..n-1 twice.
AlgPushPairs(n) ==
    /\ algPc = "start"
    /\ algOrig' = PushPairs(0, n)
    /\ algV1' = PushPairs(0, n)
    /\ algPc' = "pushed"
    /\ UNCHANGED <<algPred, algV2, daVars, itVars, mapVars, numVars, vecVars, mvVars>>

\* A vector of any other contents, handed to unique.
AlgPush ==
    /\ algPc = "start"
    /\ \E seq \in AlgSeqs :
          /\ algOrig' = seq
          /\ algV1' = seq
    /\ algPc' = "pushed"
    /\ UNCHANGED <<algPred, algV2, daVars, itVars, mapVars, numVars, vecVars, mvVars>>

\* algorithm.cc 120: v1.erase(std::unique(v1.begin(), v1.end()), v1.end()).
AlgUnique ==
    /\ algPc = "pushed"
    /\ LET r == Unique(algV1)
       IN algV1' = Erase(r.v, r.it)
    /\ algPc' = "uniqued"
    /\ UNCHANGED <<algOrig, algPred, algV2, daVars, itVars, mapVars, numVars, vecVars, mvVars>>

AlgInit ==
    /\ DAIdle
    /\ ItIdle
    /\ MapIdle
    /\ NumIdle
    /\ AlgIdle
    /\ VecIdle
    /\ MvIdle

AlgNext ==
    \/ AlgBuild
    \/ AlgRemoveErase
    \/ AlgEraseIf
    \/ \E n \in 0..(MaxAlgVal + 1) : AlgPushPairs(n)
    \/ AlgPush
    \/ AlgUnique

SpecAlg == AlgInit /\ [][AlgNext]_vars

RECURSIVE Kept(_, _)
\* The elements of seq for which pred is false, in their order.
Kept(seq, pred) ==
    IF seq = <<>> THEN <<>>
    ELSE IF pred[Head(seq)] THEN Kept(Tail(seq), pred)
         ELSE <<Head(seq)>> \o Kept(Tail(seq), pred)

\* The positions of seq whose element differs from the one just before.
RunStarts(seq) == {i \in 1..Len(seq) : i = 1 \/ seq[i] # seq[i - 1]}

\* The elements of seq at the positions in idx, in their order.
RECURSIVE Pick(_, _, _)
Pick(seq, idx, i) ==
    IF i > Len(seq) THEN <<>>
    ELSE IF i \in idx THEN <<seq[i]>> \o Pick(seq, idx, i + 1)
         ELSE Pick(seq, idx, i + 1)

\* C15: for every vector and predicate, erasing from the iterator remove_if
\* returns leaves exactly the elements for which the predicate is false, in
\* their original order, and erase_if on a copy gives the same vector.
C15_RemoveEraseIsEraseIf ==
    /\ algPc \in {"removed", "erased"} =>
          /\ algV1 = Kept(algOrig, algPred)
          /\ \A i \in 1..Len(algV1) : ~algPred[algV1[i]]
    /\ algPc = "erased" =>
          /\ Len(algV1) = Len(algV2)
          /\ algV1 = algV2

C15_Witness ==
    /\ algPc = "erased"
    /\ algPred = IsEven
    /\ algOrig = <<1, 2, 1, 2>>
    /\ algV1 = <<2, 2>> /\ algV2 = <<2, 2>>

\* C16: unique followed by erase turns [0,0,1,1,...,n-1,n-1] into
\* [0,1,...,n-1]; on any vector it removes exactly the elements equal to
\* their immediate predecessor, so equal elements that are not adjacent
\* both survive.
C16_UniqueDropsAdjacentRepeats ==
    algPc = "uniqued" =>
        /\ algV1 = Pick(algOrig, RunStarts(algOrig), 1)
        /\ \A n \in 0..(MaxAlgVal + 1) :
              algOrig = PushPairs(0, n) => algV1 = [i \in 1..n |-> i - 1]

C16_Witness ==
    /\ algPc = "uniqued"
    /\ algOrig = <<0, 0, 1, 1, 2, 2>>
    /\ algV1 = <<0, 1, 2>>

C16_WitnessApart ==
    /\ algPc = "uniqued"
    /\ algOrig = <<1, 1, 2, 1>>
    /\ algV1 = <<1, 2, 1>>

\* ---------------------------------------------------------------------
\* inheritance.cc: ABCVector, PVector, PXVector and polymorphic deletion.
\* ---------------------------------------------------------------------

\* Most objects made by new.
MaxVecs == 2

\* Most calls of info() made from main.
MaxInfo == 2

\* The classes that can be instantiated (ABCVector is abstract).
VecClasses == {"PVector", "PXVector"}

VecNames == {"F_BODY", "G_BODY"}

\* The direct base class.
Base(cls) ==
    CASE cls = "PXVector" -> "PVector"
      [] cls = "PVector" -> "ABCVector"
      [] OTHER -> "none"

\* The final overrider of info() in an object whose dynamic type is cls:
\* each of the three classes defines info().
Overrider(cls) ==
    CASE cls = "PXVector" -> "PXVector"
      [] cls = "PVector" -> "PVector"
      [] OTHER -> "ABCVector"

\* The line info() of class cls writes: "[cls]-[name]: msg".
InfoLine(k, cls, name, msg) == [obj |-> k, tag |-> cls, name |-> name, msg |-> msg]

\* The body of the destructor of class cls. Inside it the dynamic type of
\* the object is cls, so info() resolves to the overrider of cls.
\* ~PXVector is implicit and writes nothing.
DtorBody(k, cls, name) ==
    IF cls = "PXVector" THEN <<>>
    ELSE <<InfoLine(k, Overrider(cls), name, "Destructor")>>

RECURSIVE Destruct(_, _, _)
\* The destructor of cls: its body, then the destructor of its base.
Destruct(k, cls, name) ==
    IF cls = "none" THEN [dtors |-> <<>>, out |-> <<>>]
    ELSE LET rest == Destruct(k, Base(cls), name)
         IN [dtors |-> <<[obj |-> k, cls |-> cls]>> \o rest.dtors,
             out |-> DtorBody(k, cls, name) \o rest.out]

DtorEntry_NonVirtual(static, dynamic) == static

\* The destructor a delete-expression calls through a pointer of type
\* static to an object of type dynamic: ~ABCVector is virtual.
DtorEntry(static, dynamic) == dynamic

\* inheritance.cc 102: ABCVector *p_vector = new cls(name).
VecNew(cls, name) ==
    /\ Len(vecs) < MaxVecs
    /\ vecs' = Append(vecs, [cls |-> cls, name |-> name, state |-> "live"])
    /\ UNCHANGED <<vecOut, vecDtors, daVars, itVars, mapVars, numVars, algVars, mvVars>>

\* inheritance.cc 104: p_vector->info(msg).
VecInfo(k, msg) ==
    /\ vecs[k].state = "live"
    /\ Len(SelectSeq(vecOut, LAMBDA e : e.msg = msg)) < MaxInfo
    /\ vecOut' = Append(vecOut, InfoLine(k, Overrider(vecs[k].cls), vecs[k].name, msg))
    /\ UNCHANGED <<vecs, vecDtors, daVars, itVars, mapVars, numVars, algVars, mvVars>>

\* inheritance.cc 114: delete p_vector.
VecDelete(k) ==
    /\ vecs[k].state = "live"
    /\ LET d == Destruct(k, DtorEntry("ABCVector", vecs[k].cls), vecs[k].name)
       IN /\ vecOut' = vecOut \o d.out
          /\ vecDtors' = vecDtors \o d.dtors
    /\ vecs' = [vecs EXCEPT ![k].state = "deleted"]
    /\ UNCHANGED <<daVars, itVars, mapVars, numVars, algVars, mvVars>>

VecInit ==
    /\ DAIdle
    /\ ItIdle
    /\ MapIdle
    /\ RestIdle

VecNext ==
    \/ \E cls \in VecClasses, name \in VecNames : VecNew(cls, name)
    \/ \E k \in 1..Len(vecs) : VecInfo(k, "Data")
    \/ \E k \in 1..Len(vecs) : VecDelete(k)

SpecVec == VecInit /\ [][VecNext]_vars

\* The destructors entered for object k, in order.
DtorsOf(k) ==
    LET mine == SelectSeq(vecDtors, LAMBDA e : e.obj = k)
    IN [i \in 1..Len(mine) |-> mine[i].cls]

\* The lines written for object k, in order.
LinesOf(k) ==
    LET mine == SelectSeq(vecOut, LAMBDA e : e.obj = k)
    IN [i \in 1..Len(mine) |-> <<mine[i].tag, mine[i].name, mine[i].msg>>]

\* C17: deleting a PXVector through a pointer to ABCVector runs ~PXVector,
\* ~PVector and ~ABCVector once each, in that order; PVector's "Destructor"
\* line is written before ABCVector's, and both after every "Data" line of
\* the object. An object not deleted has run no destructor.
C17_DestructorChain ==
    \A k \in 1..Len(vecs) :
        /\ vecs[k].state = "live" => DtorsOf(k) = <<>>
        /\ (vecs[k].state = "deleted" /\ vecs[k].cls = "PXVector") =>
              /\ DtorsOf(k) = <<"PXVector", "PVector", "ABCVector">>
              /\ LET l == LinesOf(k)
                     n == Len(l)
                 IN /\ n >= 2
                    /\ l[n - 1] = <<"PVector", vecs[k].name, "Destructor">>
                    /\ l[n] = <<"ABCVector", vecs[k].name, "Destructor">>
                    /\ \A i \in 1..(n - 2) : l[i] = <<"PXVector", vecs[k].name, "Data">>

C17_Witness ==
    /\ Len(vecs) >= 1
    /\ vecs[1] = [cls |-> "PXVector", name |-> "F_BODY", state |-> "deleted"]
    /\ DtorsOf(1) = <<"PXVector", "PVector", "ABCVector">>
    /\ LinesOf(1) = << <<"PXVector", "F_BODY", "Data">>,
                       <<"PVector", "F_BODY", "Destructor">>,
                       <<"ABCVector", "F_BODY", "Destructor">> >>

\* ---------------------------------------------------------------------
\* temporary_objects.cc: Moveable and the three blocks of main.
\* ---------------------------------------------------------------------

\* Most blocks main runs.
MaxScopes == 3

\* Elements of std::array<Moveable, 2>.
ArraySize == 2

\* The keys of n_calls_map, in the order of std::map<std::string, int>.
KeyOrder == <<"Constructor", "Copy assignment", "Copy constructor",
              "Destructor", "Move assignement", "Move constructor">>

KeyRank(key) == CHOOSE i \in 1..Len(KeyOrder) : KeyOrder[i] = key

\* n_calls_map[key]++: the entry is inserted with 0 when absent.
Bump(map, key) ==
    IF \E i \in 1..Len(map) : map[i][1] = key
    THEN [i \in 1..Len(map) |->
             IF map[i][1] = key THEN <<key, map[i][2] + 1>> ELSE map[i]]
    ELSE LET lo == SelectSeq(map, LAMBDA e : KeyRank(e[1]) < KeyRank(key))
             hi == SelectSeq(map, LAMBDA e : KeyRank(e[1]) > KeyRank(key))
         IN lo \o << <<key, 1>> >> \o hi

RECURSIVE BumpAll(_, _)
BumpAll(map, keys) ==
    IF keys = <<>> THEN map ELSE BumpAll(Bump(map, Head(keys)), Tail(keys))

\* Value categories of an initializer: a named object, std::move of one,
\* and the call create_moveable(data).
Cats == {"lvalue", "xvalue", "prvalue"}

ElementInit_NoElision(cat) ==
    CASE cat = "lvalue" -> <<"Copy constructor">>
      [] cat = "xvalue" -> <<"Move constructor">>
      [] OTHER -> <<"Constructor", "Move constructor", "Destructor">>

\* The special members called to initialize one array element: a named
\* object is copied, an xvalue is moved from, and a prvalue initializes the
\* element in place, so only Moveable(int) runs.
ElementInit(cat) ==
    CASE cat = "lvalue" -> <<"Copy constructor">>
      [] cat = "xvalue" -> <<"Move constructor">>
      [] OTHER -> <<"Constructor">>

RECURSIVE ArrayInit(_)
ArrayInit(kinds) ==
    IF kinds = <<>> THEN <<>> ELSE ElementInit(Head(kinds)) \o ArrayInit(Tail(kinds))

\* print_n_calls: one line per entry, in key order.
PrintNCalls(map) == map

\* temporary_objects.cc 79-80, 94-95: Moveable m{data}.
MvDeclare ==
    /\ mvPc = "open"
    /\ mvRun.decl < ArraySize
    /\ mvRun' = [mvRun EXCEPT !.decl = @ + 1]
    /\ mvLive' = mvLive + 1
    /\ mvCalls' = Bump(mvCalls, "Constructor")
    /\ UNCHANGED <<mvPc, mvScope, mvOut, daVars, itVars, mapVars, numVars, algVars, vecVars>>

\* temporary_objects.cc 83, 98, 113: std::array<Moveable, 2> array{e1, e2};
\* element i names m_i unless it is a prvalue.
MvArray(kinds) ==
    /\ mvPc = "open"
    /\ \A i \in 1..ArraySize : kinds[i] # "prvalue" => i <= mvRun.decl
    /\ mvRun' = [mvRun EXCEPT !.kinds = kinds]
    /\ mvLive' = mvLive + ArraySize
    /\ mvCalls' = BumpAll(mvCalls, ArrayInit(kinds))
    /\ mvPc' = "array"
    /\ UNCHANGED <<mvScope, mvOut, daVars, itVars, mapVars, numVars, algVars, vecVars>>

\* temporary_objects.cc 85, 99, 114: end of the block; the array's elements
\* and then the named objects are destroyed.
MvExit ==
    /\ mvPc = "array"
    /\ mvCalls' = BumpAll(mvCalls, [i \in 1..mvLive |-> "Destructor"])
    /\ mvLive' = 0
    /\ mvPc' = "closed"
    /\ UNCHANGED <<mvScope, mvRun, mvOut, daVars, itVars, mapVars, numVars, algVars, vecVars>>

\* temporary_objects.cc 88, 102, 118: Moveable::print_n_calls().
MvPrint ==
    /\ mvPc = "closed"
    /\ mvOut' = Append(mvOut, [run |-> mvRun, lines |-> PrintNCalls(mvCalls)])
    /\ mvPc' = "printed"
    /\ UNCHANGED <<mvScope, mvRun, mvLive, mvCalls, daVars, itVars, mapVars, numVars, algVars, vecVars>>

\* temporary_objects.cc 89, 103: Moveable::reset_n_calls(), then the next block.
MvReset ==
    /\ mvPc = "printed"
    /\ mvScope < MaxScopes
    /\ mvCalls' = <<>>
    /\ mvScope' = mvScope + 1
    /\ mvRun' = NoRun
    /\ mvPc' = "open"
    /\ UNCHANGED <<mvLive, mvOut, daVars, itVars, mapVars, numVars, algVars, vecVars>>

\* temporary_objects.cc 120: return 0.
MvReturn ==
    /\ mvPc = "printed"
    /\ mvPc' = "done"
    /\ UNCHANGED <<mvScope, mvRun, mvLive, mvCalls, mvOut, daVars, itVars, mapVars, numVars, algVars, vecVars>>

MvInit ==
    /\ DAIdle
    /\ ItIdle
    /\ MapIdle
    /\ RestIdle

MvNext ==
    \/ MvDeclare
    \/ \E kinds \in [1..ArraySize -> Cats] : MvArray(kinds)
    \/ MvExit
    \/ MvPrint
    \/ MvReset
    \/ MvReturn

SpecMv == MvInit /\ [][MvNext]_vars

\* The count print_n_calls shows for key: no line means no call.
Shown(lines, key) ==
    IF \E i \in 1..Len(lines) : lines[i][1] = key
    THEN (CHOOSE e \in {lines[i] : i \in 1..Len(lines)} : e[1] = key)[2]
    ELSE 0

Counts(lines) ==
    <<Shown(lines, "Constructor"), Shown(lines, "Copy constructor"),
      Shown(lines, "Move constructor"), Shown(lines, "Destructor")>>

\* The three blocks of main: what each declares and how the array is built.
Scope1 == [decl |-> 2, kinds |-> <<"lvalue", "lvalue">>]

Scope2 == [decl |-> 2, kinds |-> <<"xvalue", "xvalue">>]

Scope3 == [decl |-> 0, kinds |-> <<"prvalue", "prvalue">>]

\* C18: the block that builds the array from two named objects records 2
\* constructions, 2 copy-constructions and 0 move-constructions; the block
\* that builds it from std::move of them records 2, 0 and 2; the block that
\* builds it from two calls of create_moveable records 2, 0 and 0; the
\* destructor counts are 4, 4 and 2; no assignment is ever recorded.
C18_CallCounts ==
    \A i \in 1..Len(mvOut) :
        /\ mvOut[i].run = Scope1 => Counts(mvOut[i].lines) = <<2, 2, 0, 4>>
        /\ mvOut[i].run = Scope2 => Counts(mvOut[i].lines) = <<2, 0, 2, 4>>
        /\ mvOut[i].run = Scope3 => Counts(mvOut[i].lines) = <<2, 0, 0, 2>>
        /\ Shown(mvOut[i].lines, "Copy assignment") = 0
        /\ Shown(mvOut[i].lines, "Move assignement") = 0

C18_Witness ==
    /\ mvPc = "done"
    /\ Len(mvOut) = 3
    /\ mvOut[1].run = Scope1 /\ mvOut[2].run = Scope2 /\ mvOut[3].run = Scope3
    /\ mvOut[1].lines = << <<"Constructor", 2>>, <<"Copy constructor", 2>>, <<"Destructor", 4>> >>
    /\ mvOut[2].lines = << <<"Constructor", 2>>, <<"Destructor", 4>>, <<"Move constructor", 2>> >>
    /\ mvOut[3].lines = << <<"Constructor", 2>>, <<"Destructor", 2>> >>

====
